---- MODULE Spec2Model ----
EXTENDS Integers, Sequences, FiniteSets, TLC

(***************************************************************************)
(* Model of core/transactor/sender/sender.go: the Sender's in-flight       *)
(* registry (sendingTxs) and its retry loop (retryTxWithPolicy), run by    *)
(* concurrent SendTransaction calls.  The chain client, the retry policy,  *)
(* the replacement policy and the factory are collaborators whose code is  *)
(* outside sender.go; they are modelled from their documented contracts.   *)
(***************************************************************************)

\* ------------------------------------------------------------------ bounds
MaxRetries == 2     \* retries the retry policy grants one lineage
MaxNonce == 1       \* highest pending nonce the chain reaches

\* ------------------------------------------------------------ the domains
Calls == {"c1", "c2"}          \* concurrent SendTransaction goroutines
IDs == {"a", "b", "c"}            \* message identifiers

NoErr == "nil"
ErrNonceTooLow == "NonceTooLow"
ErrReplaceUnderpriced == "ReplaceUnderpriced"
ErrTransient == "Transient"
ErrTerminal == "Terminal"
ErrBuild == "BuildFailed"
ErrCanceled == "Canceled"

\* A *coretypes.Transaction; the nil pointer is the record NilTx.
NilTx == [nonce |-> -1, gasPrice |-> -1]
MkTx(n, g) == [nonce |-> n, gasPrice |-> g]

\* tx.Hash(): a digest of the signed content, injective on it.
Hash(t) == <<t.nonce, t.gasPrice>>

Range(s) == {s[k] : k \in 1..Len(s)}
Last(s) == s[Len(s)]

\* The msgIDs slices: every non-empty sequence of distinct identifiers.
Batches ==
    {s \in UNION {[1..k -> IDs] : k \in 1..Cardinality(IDs)} :
        \A i, j \in 1..Len(s) : i # j => s[i] # s[j]}

VARIABLES
    sendingTxs,    \* Sender.sendingTxs: the keys of the sync.Map
    pc,            \* position of each call
    msgIDs,        \* the msgIDs argument of each call
    idx,           \* index of the range loop over msgIDs
    tx,            \* the tx variable of retryTxWithPolicy
    err,           \* the err variable of the current loop iteration
    ret,           \* value returned by SendTransaction
    retries,       \* retry policy: retries granted to the call's lineage
    retryLimit,    \* retry policy: the configured maximum of retries
    callers,       \* the goroutines that call SendTransaction
    cancelled,     \* ctx.Done() of each call's context is closed
    cancellable,   \* the calls whose ctx the caller can cancel
    pendingNonce,  \* chain: the account's pending nonce
    sent,          \* history: <<tx, err>> of every chain.SendTransaction
    ops            \* history: the collaborator calls made, in order

senderVars == <<sendingTxs, pc, msgIDs, idx, tx, err, ret, retries, retryLimit,
                callers, cancelled, cancellable, pendingNonce, sent, ops>>

\* ------------------------------------------------------- the registry
\* sendingTxs.Store(msgID, struct{}{})
StoreID(reg, id) == reg \cup {id}

\* Mutant: the registry is a lock, a call waits while the id is registered.
CanStoreWhenAbsent(reg, id) == id \notin reg

\* sync.Map.Store overwrites an existing key and never waits.
CanStore(reg, id) == TRUE

\* Mutant: the deregistration loop deletes nothing.
DeleteIDKeeps(reg, id) == reg

\* Mutant: the deregistration empties the whole registry.
DeleteIDClears(reg, id) == {}

\* sendingTxs.Delete(msgID)
DeleteID(reg, id) == reg \ {id}

\* Mutant: the range loop stops after its first iteration.
LoopDoneEarly(i, n) == TRUE

\* `for _, msgID := range msgIDs`: the i-th iteration is the last of n.
LoopDone(i, n) == i = n

\* Sender.IsSending
IsSending(id) == id \in sendingTxs

\* ---------------------------------------------------- the collaborators
\* eth.Client.SendTransaction on a non-nil tx: a stale nonce is rejected,
\* otherwise the node accepts or answers one of the classified errors.
ChainResults(t, pending) ==
    IF t.nonce < pending
    THEN {ErrNonceTooLow, ErrTransient}
    ELSE {NoErr, ErrReplaceUnderpriced, ErrTransient, ErrTerminal}

\* eth.Client.SendTransaction on a nil tx, when it does not panic.
NilSendResults == {ErrTransient, ErrTerminal}

\* s.chain.SendTransaction(ctx, tx): a cancelled ctx fails the request, which
\* the policies see as a generic broadcast failure.
SendResults(t, pending, isCancelled) ==
    IF t = NilTx THEN NilSendResults
    ELSE IF isCancelled THEN {ErrCanceled}
    ELSE ChainResults(t, pending)

\* RetryPolicy.Get: nil and terminal errors end the loop, a recoverable error
\* is retried until the lineage has used the configured maximum of retries.
RetryGet(e, n, limit) == e \notin {NoErr, ErrTerminal} /\ n < limit

\* Gas bump of the replacement policy: a strictly positive percentage step.
GasBumpPct == 15
BumpGas(g) == g + ((g * GasBumpPct + 99) \div 100)

\* TxReplacementPolicy.GetNew
GetNew(t, e, pending) ==
    IF e = ErrNonceTooLow THEN MkTx(pending, t.gasPrice)
    ELSE IF e = ErrReplaceUnderpriced THEN MkTx(t.nonce, BumpGas(t.gasPrice))
    ELSE t

\* types.NewTxRequestFromTx: the requests carry the payload and the gas price.
NewTxRequestFromTx(t) == [gasPrice |-> t.gasPrice]

\* Factory.BuildTransactionFromRequests: a signed tx at the given nonce, or
\* (nil, error).
BuildResults(nonce, req) ==
    {[tx |-> MkTx(nonce, req.gasPrice), err |-> NoErr],
     [tx |-> NilTx, err |-> ErrBuild]}

\* ------------------------------------------------ pieces of the retry loop
\* Mutant: the test of the policy's answer is inverted.
ShouldReturnInverted(retry) == retry

\* `if !retry { return err }`
ShouldReturn(retry) == ~retry

\* Mutant: the loop's result is dropped and nil returned.
ReturnNil(e) == NoErr

\* `return err`, in retryTxWithPolicy and again in SendTransaction
ReturnErr(e) == e

\* Mutant: err is one variable for the whole loop and a build error sticks.
SendErrKeepsBuildErr(old, res) == IF old = ErrBuild THEN old ELSE res

\* `err := s.chain.SendTransaction(ctx, tx)`: a fresh err per iteration.
SendErr(old, res) == res

\* Mutant: the backoff is a select on ctx.Done() and a cancelled call leaves.
AfterSleepCancellable(isCancelled) == IF isCancelled THEN "delete" ELSE "replace"

\* `time.Sleep(backoff)`: a plain sleep, then the loop body goes on.
AfterSleep(isCancelled) == "replace"

\* `tx, err = s.factory.BuildTransactionFromRequests(...)`: tx takes the
\* factory's result whether or not the build failed.
TxAfterBuild(held, res) == res.tx

\* `if newTx := tx.Hash(); newTx != currTx`
HashChanged(old, new) == Hash(new) # Hash(old)

\* tx.Nonce() handed to the factory
BuildNonce(t) == t.nonce

\* Mutant: the hash transition is reported the wrong way round.
UpdateArgsSwapped(curr, new) == <<Hash(new), Hash(curr)>>

\* `s.retryPolicy.UpdateTxModified(currTx, newTx)`: (oldHash, newHash)
UpdateArgs(curr, new) == <<Hash(curr), Hash(new)>>

\* A collaborator call; upd holds the arguments of an UpdateTxModified.
Op(name, t, e) == [op |-> name, tx |-> t, err |-> e, upd |-> <<>>]
UpdateOp(t, e, args) == [op |-> "update", tx |-> t, err |-> e, upd |-> args]

\* ------------------------------------------------------- the HTTP server
\* Model of server/server.go: the middleware chain built by RegisterHandler
\* and the life cycle of the underlying http.Server (Start, Stop).
MaxMiddlewares == 3     \* RegisterMiddleware calls made on one Server

MiddlewareNames == {"m1", "m2"}
Paths == {"/a", "/b"}
ExplicitStops == {"s1", "s2"}           \* goroutines that call Stop
Stoppers == ExplicitStops \cup {"ctx"}  \* and the goroutine Start spawns

VARIABLES
    middlewares,   \* Server.middlewares
    mux,           \* Server.mux: the handler served at each path, <<>> if none
    regLen,        \* history: len(s.middlewares) when the path was registered
    srv,           \* Server.srv: "nil", "created" or "closed"
    closes,        \* history: calls of s.srv.Close()
    closer,        \* Server.closer, the sync.Once: [done, locked]
    startPc,       \* position of the Start call
    stopPc,        \* position of each Stop call
    afterStart,    \* history: the Stop call began after Start had set s.srv
    ctxDone        \* ctx.Done() of the ctx given to Start is closed

serverVars == <<middlewares, mux, regLen, srv, closes, closer, startPc,
                stopPc, afterStart, ctxDone>>

vars == <<senderVars, serverVars>>

\* The handler h.Handler; a handler is the sequence of the layers a request
\* passes through, outermost first.
Handler(path) == <<path>>

\* Mutant: the middleware is put next to the handler, inside the layers built
\* so far.
ApplyInnermost(m, chain) ==
    SubSeq(chain, 1, Len(chain) - 1) \o <<m>> \o <<chain[Len(chain)]>>

\* `s.middlewares[i](chain)`: the middleware runs, then calls chain.
Apply(m, chain) == <<m>> \o chain

\* `for i := len(s.middlewares) - 1; i >= 0; i-- { chain = s.middlewares[i](chain) }`
\* (indices here start at 1)
RECURSIVE WrapDown(_, _, _)
WrapDown(i, chain, mws) ==
    IF i < 1 THEN chain ELSE WrapDown(i - 1, Apply(mws[i], chain), mws)

\* RegisterHandler: `chain := h.Handler`, then the loop.
Chain(h, mws) == WrapDown(Len(mws), h, mws)

\* Mutant: the closure is run by every Do.
MustRunAlways(once) == TRUE

\* sync.Once.Do runs f while done is unset.
MustRun(once) == ~once.done

\* The value of s.srv a Stop call reads.  Start writes s.srv with no lock: a
\* Stop that began before the write and reads after it races with it and may
\* see either value.
SrvSeen(k) == IF srv = "nil" \/ afterStart[k] THEN {srv} ELSE {"nil", srv}

\* The Server after New(cfg, logger).
InitHTTP ==
    /\ middlewares = <<>>
    /\ mux = [p \in Paths |-> <<>>]
    /\ regLen = [p \in Paths |-> 0]
    /\ srv = "nil"
    /\ closes = 0
    /\ closer = [done |-> FALSE, locked |-> FALSE]
    /\ startPc = "idle"
    /\ stopPc = [k \in Stoppers |-> "idle"]
    /\ afterStart = [k \in Stoppers |-> FALSE]
    /\ ctxDone = FALSE

\* ------------------------------------------------------------------ Init
\* The Sender after New and Setup: an empty registry, no call running.  The
\* arguments of the calls to come are drawn here.
InitSender ==
    /\ sendingTxs = {}
    /\ pc = [c \in Calls |-> "idle"]
    /\ idx = [c \in Calls |-> 1]
    /\ err = [c \in Calls |-> NoErr]
    /\ ret = [c \in Calls |-> "none"]
    /\ retries = [c \in Calls |-> 0]
    /\ pendingNonce = 0
    /\ sent = [c \in Calls |-> <<>>]
    /\ ops = [c \in Calls |-> <<>>]
    /\ cancelled = [c \in Calls |-> FALSE]
    /\ InitHTTP

\* One caller, a retry policy granting MaxRetries retries.
Init ==
    /\ InitSender
    /\ callers = {"c1"}
    /\ cancellable = {"c1"}
    /\ retryLimit = MaxRetries
    /\ msgIDs \in {f \in [Calls -> Batches] : f["c2"] = <<"a">>}
    /\ tx \in {f \in [Calls -> {MkTx(n, 1) : n \in 0..MaxNonce}] : f["c2"] = MkTx(0, 1)}

\* Two concurrent callers.  Identifiers are opaque, so the first call's batch
\* is named <<"a">> or <<"a", "b">>.  Under a retry policy granting one retry
\* the second call's batch ranges over every batch (disjoint, overlapping,
\* equal); under a policy granting two retries both calls send one id, the
\* same or not.
InitConcurrent ==
    /\ InitSender
    /\ callers = Calls
    /\ \/ /\ retryLimit = 1
          /\ msgIDs \in {f \in [Calls -> Batches] : f["c1"] \in {<<"a">>, <<"a", "b">>}}
          /\ cancellable = IF msgIDs["c2"] = <<"c">> /\ msgIDs["c1"] = <<"a">>
                           THEN {"c1"} ELSE {}
       \/ /\ retryLimit = 2
          /\ cancellable = {}
          /\ msgIDs \in {f \in [Calls -> Batches] :
                            f["c1"] = <<"a">> /\ f["c2"] \in {<<"a">>, <<"b">>}}
    /\ tx = [c \in Calls |-> MkTx(0, 1)]

\* --------------------------------------------------------------- actions
\* SendTransaction is entered with (tx[c], msgIDs[c]).
Call(c) ==
    /\ c \in callers
    /\ pc[c] = "idle"
    /\ pc' = [pc EXCEPT ![c] = "store"]
    /\ idx' = [idx EXCEPT ![c] = 1]
    /\ UNCHANGED <<sendingTxs, msgIDs, tx, err, ret, retries, retryLimit, callers, cancelled, cancellable, pendingNonce, sent, ops>>
    /\ UNCHANGED serverVars

\* One iteration of the registration loop.
Store(c) ==
    /\ pc[c] = "store"
    /\ CanStore(sendingTxs, msgIDs[c][idx[c]])
    /\ sendingTxs' = StoreID(sendingTxs, msgIDs[c][idx[c]])
    /\ IF LoopDone(idx[c], Len(msgIDs[c]))
       THEN /\ pc' = [pc EXCEPT ![c] = "send"]
            /\ idx' = [idx EXCEPT ![c] = 1]
       ELSE /\ idx' = [idx EXCEPT ![c] = idx[c] + 1]
            /\ UNCHANGED pc
    /\ UNCHANGED <<msgIDs, tx, err, ret, retries, retryLimit, callers, cancelled, cancellable, pendingNonce, sent, ops>>
    /\ UNCHANGED serverVars

\* s.chain.SendTransaction(ctx, tx) returns.
Send(c) ==
    /\ pc[c] = "send"
    /\ \E res \in SendResults(tx[c], pendingNonce, cancelled[c]) :
          /\ err' = [err EXCEPT ![c] = SendErr(err[c], res)]
          /\ sent' = [sent EXCEPT ![c] = Append(@, [tx |-> tx[c], err |-> res])]
          /\ ops' = [ops EXCEPT ![c] = Append(@, Op("send", tx[c], res))]
    /\ pc' = [pc EXCEPT ![c] = "get"]
    /\ UNCHANGED <<sendingTxs, msgIDs, idx, tx, ret, retries, retryLimit, callers, cancelled, cancellable, pendingNonce>>
    /\ UNCHANGED serverVars

\* s.chain.SendTransaction(ctx, nil) dereferences the nil tx and panics.
SendPanic(c) ==
    /\ pc[c] = "send"
    /\ tx[c] = NilTx
    /\ sent' = [sent EXCEPT ![c] = Append(@, [tx |-> NilTx, err |-> "panic"])]
    /\ ops' = [ops EXCEPT ![c] = Append(@, Op("send", NilTx, "panic"))]
    /\ pc' = [pc EXCEPT ![c] = "panicked"]
    /\ UNCHANGED <<sendingTxs, msgIDs, idx, tx, err, ret, retries, retryLimit, callers, cancelled, cancellable, pendingNonce>>
    /\ UNCHANGED serverVars

\* s.retryPolicy.Get(tx, err) and the `if !retry { return err }` that follows.
Get(c) ==
    /\ pc[c] = "get"
    /\ LET retry == RetryGet(err[c], retries[c], retryLimit) IN
          /\ ops' = [ops EXCEPT ![c] =
                        Append(@, Op(IF retry THEN "get-retry" ELSE "get-stop", tx[c], err[c]))]
          /\ IF ShouldReturn(retry)
             THEN /\ ret' = [ret EXCEPT ![c] = ReturnErr(err[c])]
                  /\ pc' = [pc EXCEPT ![c] = "delete"]
                  /\ UNCHANGED retries
             ELSE /\ retries' = [retries EXCEPT ![c] = @ + 1]
                  /\ pc' = [pc EXCEPT ![c] = "sleep"]
                  /\ UNCHANGED ret
    /\ UNCHANGED <<sendingTxs, msgIDs, idx, tx, err, retryLimit, callers, cancelled, cancellable, pendingNonce, sent>>
    /\ UNCHANGED serverVars

\* s.retryPolicy.Get(nil, err) reads the nil tx and panics.
GetPanic(c) ==
    /\ pc[c] = "get"
    /\ tx[c] = NilTx
    /\ pc' = [pc EXCEPT ![c] = "panicked"]
    /\ UNCHANGED <<sendingTxs, msgIDs, idx, tx, err, ret, retries, retryLimit, callers, cancelled, cancellable, pendingNonce, sent, ops>>
    /\ UNCHANGED serverVars

\* time.Sleep(backoff)
Sleep(c) ==
    /\ pc[c] = "sleep"
    /\ ops' = [ops EXCEPT ![c] = Append(@, Op("sleep", tx[c], err[c]))]
    /\ pc' = [pc EXCEPT ![c] = AfterSleep(cancelled[c])]
    /\ UNCHANGED <<sendingTxs, msgIDs, idx, tx, err, ret, retries, retryLimit, callers, cancelled, cancellable, pendingNonce, sent>>
    /\ UNCHANGED serverVars

\* tx.Hash(), GetNew and, if the hash changed, UpdateTxModified.
Replace(c) ==
    /\ pc[c] = "replace"
    /\ tx[c] # NilTx
    /\ LET new == GetNew(tx[c], err[c], pendingNonce) IN
          /\ tx' = [tx EXCEPT ![c] = new]
          /\ ops' = [ops EXCEPT ![c] =
                IF HashChanged(tx[c], new)
                THEN @ \o <<Op("getnew", new, err[c]),
                            UpdateOp(new, err[c], UpdateArgs(tx[c], new))>>
                ELSE Append(@, Op("getnew", new, err[c]))]
    /\ pc' = [pc EXCEPT ![c] = "build"]
    /\ UNCHANGED <<sendingTxs, msgIDs, idx, err, ret, retries, retryLimit, callers, cancelled, cancellable, pendingNonce, sent>>
    /\ UNCHANGED serverVars

\* tx.Hash() on a nil tx panics.
ReplacePanic(c) ==
    /\ pc[c] = "replace"
    /\ tx[c] = NilTx
    /\ pc' = [pc EXCEPT ![c] = "panicked"]
    /\ UNCHANGED <<sendingTxs, msgIDs, idx, tx, err, ret, retries, retryLimit, callers, cancelled, cancellable, pendingNonce, sent, ops>>
    /\ UNCHANGED serverVars

\* s.factory.BuildTransactionFromRequests(ctx, tx.Nonce(), NewTxRequestFromTx(tx))
Build(c) ==
    /\ pc[c] = "build"
    /\ \E res \in BuildResults(BuildNonce(tx[c]), NewTxRequestFromTx(tx[c])) :
          /\ tx' = [tx EXCEPT ![c] = TxAfterBuild(tx[c], res)]
          /\ err' = [err EXCEPT ![c] = res.err]
          /\ ops' = [ops EXCEPT ![c] = Append(@, Op("build", tx[c], res.err))]
    /\ pc' = [pc EXCEPT ![c] = "send"]
    /\ UNCHANGED <<sendingTxs, msgIDs, idx, ret, retries, retryLimit, callers, cancelled, cancellable, pendingNonce, sent>>
    /\ UNCHANGED serverVars

\* One iteration of the deregistration loop; after the last one the call returns.
Delete(c) ==
    /\ pc[c] = "delete"
    /\ sendingTxs' = DeleteID(sendingTxs, msgIDs[c][idx[c]])
    /\ IF LoopDone(idx[c], Len(msgIDs[c]))
       THEN /\ pc' = [pc EXCEPT ![c] = "done"]
            /\ UNCHANGED idx
       ELSE /\ idx' = [idx EXCEPT ![c] = idx[c] + 1]
            /\ UNCHANGED pc
    /\ UNCHANGED <<msgIDs, tx, err, ret, retries, retryLimit, callers, cancelled, cancellable, pendingNonce, sent, ops>>
    /\ UNCHANGED serverVars

\* The caller cancels the ctx it passed to a call that runs its retry loop.
Cancel(c) ==
    /\ c \in cancellable
    /\ ~cancelled[c]
    /\ pc[c] \in {"send", "get", "sleep", "replace", "build"}
    /\ cancelled' = [cancelled EXCEPT ![c] = TRUE]
    /\ UNCHANGED <<sendingTxs, pc, msgIDs, idx, tx, err, ret, retries, retryLimit, callers,
                   cancellable, pendingNonce, sent, ops>>
    /\ UNCHANGED serverVars

\* The chain's pending nonce of the account advances.
ChainAdvance ==
    /\ pendingNonce < MaxNonce
    /\ pendingNonce' = pendingNonce + 1
    /\ UNCHANGED <<sendingTxs, pc, msgIDs, idx, tx, err, ret, retries, retryLimit, callers, cancelled, cancellable, sent, ops>>
    /\ UNCHANGED serverVars

Step(c) ==
    \/ Call(c)
    \/ Store(c)
    \/ Send(c)
    \/ SendPanic(c)
    \/ Get(c)
    \/ GetPanic(c)
    \/ Sleep(c)
    \/ Replace(c)
    \/ ReplacePanic(c)
    \/ Build(c)
    \/ Delete(c)
    \/ Cancel(c)

Next ==
    \/ \E c \in Calls : Step(c)
    \/ ChainAdvance

Spec == Init /\ [][Next]_vars

SpecConcurrent == InitConcurrent /\ [][Next]_vars

\* ------------------------------------------------- actions of the server
\* RegisterMiddleware(m): `s.middlewares = append(s.middlewares, m)`
RegisterMiddleware(m) ==
    /\ Len(middlewares) < MaxMiddlewares
    /\ middlewares' = Append(middlewares, m)
    /\ UNCHANGED <<mux, regLen, srv, closes, closer, startPc, stopPc, afterStart, ctxDone>>
    /\ UNCHANGED senderVars

\* RegisterHandler(h) with h.Path = path: the chain is built and handed to
\* s.mux.Handle, which accepts a path once.
RegisterHandler(path) ==
    /\ mux[path] = <<>>
    /\ mux' = [mux EXCEPT ![path] = Chain(Handler(path), middlewares)]
    /\ regLen' = [regLen EXCEPT ![path] = Len(middlewares)]
    /\ UNCHANGED <<middlewares, srv, closes, closer, startPc, stopPc, afterStart, ctxDone>>
    /\ UNCHANGED senderVars

\* Start: `s.srv = &http.Server{...}`
StartCreate ==
    /\ startPc = "idle"
    /\ srv' = "created"
    /\ startPc' = "spawn"
    /\ UNCHANGED <<middlewares, mux, regLen, closes, closer, stopPc, afterStart, ctxDone>>
    /\ UNCHANGED senderVars

\* Start: `go func() { <-ctx.Done(); s.Stop() }()`
StartSpawn ==
    /\ startPc = "spawn"
    /\ stopPc' = [stopPc EXCEPT !["ctx"] = "waiting"]
    /\ startPc' = "serve"
    /\ UNCHANGED <<middlewares, mux, regLen, srv, closes, closer, afterStart, ctxDone>>
    /\ UNCHANGED senderVars

\* Start: `s.srv.ListenAndServe()` is called; on a closed server it returns
\* at once.
StartServe ==
    /\ startPc = "serve"
    /\ startPc' = IF srv = "closed" THEN "returned" ELSE "listening"
    /\ UNCHANGED <<middlewares, mux, regLen, srv, closes, closer, stopPc, afterStart, ctxDone>>
    /\ UNCHANGED senderVars

\* Start: ListenAndServe returns once the server is closed.
StartReturn ==
    /\ startPc = "listening"
    /\ srv = "closed"
    /\ startPc' = "returned"
    /\ UNCHANGED <<middlewares, mux, regLen, srv, closes, closer, stopPc, afterStart, ctxDone>>
    /\ UNCHANGED senderVars

\* The ctx given to Start is cancelled.
CtxCancel ==
    /\ ~ctxDone
    /\ ctxDone' = TRUE
    /\ UNCHANGED <<middlewares, mux, regLen, srv, closes, closer, startPc, stopPc, afterStart>>
    /\ UNCHANGED senderVars

\* A goroutine calls Stop.
StopCall(k) ==
    /\ k \in ExplicitStops
    /\ stopPc[k] = "idle"
    /\ stopPc' = [stopPc EXCEPT ![k] = "do"]
    /\ afterStart' = [afterStart EXCEPT ![k] = (srv # "nil")]
    /\ UNCHANGED <<middlewares, mux, regLen, srv, closes, closer, startPc, ctxDone>>
    /\ UNCHANGED senderVars

\* The goroutine of Start: `<-ctx.Done()` returns and it calls Stop.
CtxStop ==
    /\ stopPc["ctx"] = "waiting"
    /\ ctxDone
    /\ stopPc' = [stopPc EXCEPT !["ctx"] = "do"]
    /\ afterStart' = [afterStart EXCEPT !["ctx"] = TRUE]
    /\ UNCHANGED <<middlewares, mux, regLen, srv, closes, closer, startPc, ctxDone>>
    /\ UNCHANGED senderVars

\* Stop: `s.closer.Do(func() {...})`: the Once's mutex is taken and the closure
\* is run if the Once is not done; the call returns if it is.
OnceDo(k) ==
    /\ stopPc[k] = "do"
    /\ IF MustRun(closer)
       THEN /\ ~closer.locked
            /\ closer' = [closer EXCEPT !.locked = TRUE]
            /\ stopPc' = [stopPc EXCEPT ![k] = "close"]
       ELSE /\ stopPc' = [stopPc EXCEPT ![k] = "returned"]
            /\ UNCHANGED closer
    /\ UNCHANGED <<middlewares, mux, regLen, srv, closes, startPc, afterStart, ctxDone>>
    /\ UNCHANGED senderVars

\* Stop: `s.srv.Close()` on the server; the Once is marked done and released.
Close(k) ==
    /\ stopPc[k] = "close"
    /\ \E seen \in SrvSeen(k) : seen # "nil"
    /\ closes' = closes + 1
    /\ srv' = "closed"
    /\ closer' = [done |-> TRUE, locked |-> FALSE]
    /\ stopPc' = [stopPc EXCEPT ![k] = "returned"]
    /\ UNCHANGED <<middlewares, mux, regLen, startPc, afterStart, ctxDone>>
    /\ UNCHANGED senderVars

\* Stop: `s.srv.Close()` on a nil s.srv panics; the Once's deferred calls
\* still mark it done and release it.
ClosePanic(k) ==
    /\ stopPc[k] = "close"
    /\ "nil" \in SrvSeen(k)
    /\ closer' = [done |-> TRUE, locked |-> FALSE]
    /\ stopPc' = [stopPc EXCEPT ![k] = "panicked"]
    /\ UNCHANGED <<middlewares, mux, regLen, srv, closes, startPc, afterStart, ctxDone>>
    /\ UNCHANGED senderVars

\* A Server on its own: no SendTransaction call is made.
InitServer ==
    /\ InitSender
    /\ callers = {}
    /\ cancellable = {}
    /\ retryLimit = 0
    /\ msgIDs = [c \in Calls |-> <<"a">>]
    /\ tx = [c \in Calls |-> MkTx(0, 1)]

NextServer ==
    \/ \E m \in MiddlewareNames : RegisterMiddleware(m)
    \/ \E p \in Paths : RegisterHandler(p)
    \/ StartCreate
    \/ StartSpawn
    \/ StartServe
    \/ StartReturn
    \/ CtxCancel
    \/ CtxStop
    \/ \E k \in Stoppers : StopCall(k) \/ OnceDo(k) \/ Close(k) \/ ClosePanic(k)

SpecServer == InitServer /\ [][NextServer]_vars

\* ------------------------------------------------------------ vocabulary
IsTx(t) == t # NilTx

\* The call is between entry and return and has run its first statement.
Inside(c) ==
    /\ pc[c] \in {"store", "send", "get", "sleep", "replace", "build", "delete"}
    /\ ~(pc[c] = "store" /\ idx[c] = 1)

\* The call is running its retry loop.
InLoop(c) == pc[c] \in {"send", "get", "sleep", "replace", "build"}

\* No other caller's msgIDs shares an identifier with c's.
Disjoint(c) ==
    \A d \in callers \ {c} : Range(msgIDs[c]) \cap Range(msgIDs[d]) = {}

\* The k-th identifier of c's msgIDs is stored and not yet deleted by c.
Holds(c, k) ==
    CASE pc[c] \in {"idle", "done"} -> FALSE
      [] pc[c] = "store" -> k < idx[c]
      [] pc[c] = "delete" -> k >= idx[c]
      [] OTHER -> TRUE

OpsOf(c, names) == {k \in 1..Len(ops[c]) : ops[c][k].op \in names}

\* ------------------------------------------------------------------- C1
\* C1 as stated: for a call that shares no identifier with another call,
\* IsSending(id) is false before the call and after it has returned, and true
\* at every point between entry and return, for every id of its msgIDs.
C1_TrueThroughoutCall ==
    \A c \in callers : Disjoint(c) =>
        \A id \in Range(msgIDs[c]) :
            /\ pc[c] \in {"idle", "done"} => ~IsSending(id)
            /\ Inside(c) => IsSending(id)

\* C1 amended: for a call that shares no identifier with another call,
\* IsSending(id) is false before the call and after it has returned and true for
\* every id while the retry loop runs; during the registration loop exactly the
\* ids already stored are sending, during the deregistration loop exactly the
\* ids not yet deleted.
C1_TrueDuringRetryLoop ==
    \A c \in callers : Disjoint(c) =>
        \A k \in 1..Len(msgIDs[c]) : IsSending(msgIDs[c][k]) <=> Holds(c, k)

\* A batched call waits in its backoff beside a running call with other ids;
\* both of its ids are sending.
C1_Witness ==
    \E c \in callers : \E d \in callers \ {c} :
        /\ Disjoint(c)
        /\ Len(msgIDs[c]) = 2
        /\ pc[c] = "sleep"
        /\ InLoop(d)
        /\ \A id \in Range(msgIDs[c]) : IsSending(id)

\* ------------------------------------------------------------------- C2
\* C2 as stated: once a call is no longer executing (it returned, or its retry
\* loop ended abnormally), none of its ids is registered unless a call still
\* executing holds it.
C2_CleanupOnEveryExit ==
    \A c \in callers : pc[c] \in {"done", "panicked"} =>
        \A id \in Range(msgIDs[c]) :
            IsSending(id) =>
                \E d \in callers \ {c} :
                    \E k \in 1..Len(msgIDs[d]) :
                        msgIDs[d][k] = id /\ Inside(d) /\ Holds(d, k)

\* ------------------------------------------------------------------- C3
\* C3 as stated: IsSending(id) is true if and only if some in-progress call
\* (it stored id and has not deleted it or returned) includes id.
C3_SendingIffHeld ==
    \A id \in IDs :
        IsSending(id) <=>
            \E c \in callers : \E k \in 1..Len(msgIDs[c]) :
                msgIDs[c][k] = id /\ Inside(c) /\ Holds(c, k)

C5_FirstSuccessReturnsNil ==
    \A c \in callers :
        (Len(sent[c]) >= 1 /\ sent[c][1].err = NoErr) =>
            /\ OpsOf(c, {"sleep", "getnew", "update", "build"}) = {}
            /\ Len(sent[c]) = 1
            /\ pc[c] \in {"get", "delete", "done"}
            /\ pc[c] \in {"delete", "done"} => ret[c] = NoErr

\* A call whose first broadcast succeeded has returned.
C5_Witness ==
    \E c \in callers :
        /\ pc[c] = "done"
        /\ sent[c][1].err = NoErr
        /\ ret[c] = NoErr

\* ------------------------------------------------------------------- C6
\* C6 as stated: after a failed factory build the next broadcast sends the
\* transaction held before the build, never the failed build's result.
C6_RetainsLastGoodTx ==
    \A c \in callers : \A k \in 2..Len(ops[c]) :
        (ops[c][k].op = "send" /\ ops[c][k-1].op = "build" /\ ops[c][k-1].err = ErrBuild) =>
            /\ IsTx(ops[c][k].tx)
            /\ ops[c][k].tx = ops[c][k-1].tx

\* ------------------------------------------------------------------- C7
\* C7 as stated, in the form a finite run refutes: under a retry policy that
\* stops after a bounded number of retries no call ends without returning, and
\* a returned call returns nil or the last error the chain client answered.
C7_ReturnsNilOrLastError ==
    \A c \in callers :
        /\ pc[c] # "panicked"
        /\ pc[c] = "done" => (ret[c] = NoErr \/ ret[c] = Last(sent[c]).err)

\* ------------------------------------------------------------------- C8
\* C8: the value SendTransaction returns is the result of the final broadcast,
\* the one the retry policy answered retry=false for; every earlier broadcast
\* was answered retry=true, and a factory build error is never returned.
C8_ReturnsFinalBroadcast ==
    \A c \in callers : pc[c] \in {"delete", "done"} =>
        LET n == Len(ops[c]) IN
            /\ n >= 2
            /\ ops[c][n].op = "get-stop"
            /\ ops[c][n-1].op = "send"
            /\ ret[c] = ops[c][n-1].err
            /\ ret[c] # ErrBuild
            /\ OpsOf(c, {"get-stop"}) = {n}
            /\ \A k \in OpsOf(c, {"send"}) \ {n-1} : ops[c][k+1].op = "get-retry"

\* A call has returned after an earlier broadcast failed with another error
\* and a factory build failed.
C8_Witness ==
    \E c \in callers :
        /\ pc[c] = "done"
        /\ \E k \in OpsOf(c, {"build"}) : ops[c][k].err = ErrBuild
        /\ sent[c][1].err # ret[c]

\* ------------------------------------------------------------------- C9
\* C9 as stated: after a broadcast failed with NonceTooLow and was retried, the
\* next broadcast carries a transaction whose nonce and hash differ from the
\* prior attempt's.
C9_NonceRefreshed ==
    \A c \in callers : \A k \in 1..(Len(sent[c]) - 1) :
        sent[c][k].err = ErrNonceTooLow =>
            /\ IsTx(sent[c][k+1].tx)
            /\ sent[c][k+1].tx.nonce # sent[c][k].tx.nonce
            /\ Hash(sent[c][k+1].tx) # Hash(sent[c][k].tx)

\* ------------------------------------------------------------------ C10
\* C10 as stated: after a broadcast failed with ReplaceUnderpriced, the next
\* broadcast carries a transaction whose gas price is not lower.
C10_GasNonDecreasing ==
    \A c \in callers : \A k \in 1..(Len(sent[c]) - 1) :
        sent[c][k].err = ErrReplaceUnderpriced =>
            /\ IsTx(sent[c][k+1].tx)
            /\ sent[c][k+1].tx.gasPrice >= sent[c][k].tx.gasPrice

\* ------------------------------------------------------------------ C11
\* C11 as stated: under a retry policy answering [retry, retry, terminal], with
\* a chain client that answers ReplaceUnderpriced to every transaction, a call
\* makes exactly 3 broadcasts, every broadcast after the first carries a
\* transaction with a strictly higher gas price than the one before, and the
\* call returns ReplaceUnderpriced.
C11_ThreeBroadcastsGasRising ==
    \A c \in callers :
        (retryLimit = 2 /\ \A k \in 1..Len(sent[c]) :
                              IsTx(sent[c][k].tx) => sent[c][k].err = ErrReplaceUnderpriced) =>
            /\ pc[c] # "panicked"
            /\ Len(sent[c]) <= 3
            /\ \A k \in 1..(Len(sent[c]) - 1) :
                  /\ IsTx(sent[c][k+1].tx)
                  /\ sent[c][k+1].tx.gasPrice > sent[c][k].tx.gasPrice
            /\ pc[c] = "done" => (Len(sent[c]) = 3 /\ ret[c] = ErrReplaceUnderpriced)

\* ------------------------------------------------------------------ C12
\* C12 as stated: when GetNew returns the transaction it was given, the next
\* broadcast sends that same transaction: same hash, nonce and gas price.
C12_UnchangedTxResent ==
    \A c \in callers : \A i \in OpsOf(c, {"getnew"}) :
        (ops[c][i].tx = ops[c][i-3].tx) =>
            \A j \in OpsOf(c, {"send"}) :
                (j > i /\ OpsOf(c, {"send"}) \cap (i..(j-1)) = {}) =>
                    /\ IsTx(ops[c][j].tx)
                    /\ Hash(ops[c][j].tx) = Hash(ops[c][i].tx)
                    /\ ops[c][j].tx.nonce = ops[c][i].tx.nonce
                    /\ ops[c][j].tx.gasPrice = ops[c][i].tx.gasPrice

\* ------------------------------------------------------------------ C14
\* C14: in every retry iteration UpdateTxModified is called exactly when the
\* hash of the transaction GetNew returned differs from the hash of the
\* transaction just broadcast, with (hash of the broadcast transaction, hash
\* of the replacement) as its arguments; with equal hashes it is not called.
C14_UpdateIffHashChanged ==
    \A c \in callers :
        /\ \A i \in OpsOf(c, {"getnew"}) :
              /\ ops[c][i-3].op = "send"
              /\ IF Hash(ops[c][i].tx) # Hash(ops[c][i-3].tx)
                 THEN /\ i < Len(ops[c])
                      /\ ops[c][i+1].op = "update"
                      /\ ops[c][i+1].upd = <<Hash(ops[c][i-3].tx), Hash(ops[c][i].tx)>>
                 ELSE i < Len(ops[c]) => ops[c][i+1].op # "update"
        /\ \A i \in OpsOf(c, {"update"}) : i > 1 /\ ops[c][i-1].op = "getnew"

\* One call has made a retry that reported a hash transition and a retry that
\* did not.
C14_Witness ==
    \E c \in callers :
        /\ OpsOf(c, {"update"}) # {}
        /\ \E i \in OpsOf(c, {"getnew"}) :
              i < Len(ops[c]) /\ ops[c][i+1].op = "build"

\* ------------------------------------------------------------------ C15
\* C15 as stated: every broadcast after the first carries a transaction whose
\* hash is the previous broadcast's hash or the newHash of an UpdateTxModified
\* (oldHash = the previous broadcast's hash) called between the two.
C15_LineageContinuous ==
    \A c \in callers : \A i, j \in OpsOf(c, {"send"}) :
        (i < j /\ OpsOf(c, {"send"}) \cap ((i+1)..(j-1)) = {}) =>
            /\ IsTx(ops[c][j].tx)
            /\ \/ Hash(ops[c][j].tx) = Hash(ops[c][i].tx)
               \/ \E m \in OpsOf(c, {"update"}) :
                     /\ i < m /\ m < j
                     /\ ops[c][m].upd = <<Hash(ops[c][i].tx), Hash(ops[c][j].tx)>>

\* ------------------------------------------------------------------ C17
\* The collaborator call that may follow each call within one SendTransaction.
FollowsInOrder(a, b) ==
    \/ a = "send" /\ b \in {"get-retry", "get-stop"}
    \/ a = "get-retry" /\ b = "sleep"
    \/ a = "sleep" /\ b = "getnew"
    \/ a = "getnew" /\ b \in {"update", "build"}
    \/ a = "update" /\ b = "build"
    \/ a = "build" /\ b = "send"

\* C17: within one call every msgID is registered before the first broadcast
\* and stays registered while the loop runs; each broadcast is followed by one
\* Get on the transaction just broadcast and its error; between two broadcasts
\* come one backoff wait, one GetNew and one factory build, in that order; and
\* the deregistration starts only after a Get answered retry=false, which is
\* the call's last collaborator call.
C17_FixedOrder ==
    \A c \in callers :
        /\ (InLoop(c) \/ pc[c] = "panicked") => Range(msgIDs[c]) \subseteq sendingTxs
        /\ pc[c] \in {"idle", "store"} => ops[c] = <<>>
        /\ ops[c] # <<>> => ops[c][1].op = "send"
        /\ \A i \in 1..(Len(ops[c]) - 1) : FollowsInOrder(ops[c][i].op, ops[c][i+1].op)
        /\ \A i \in OpsOf(c, {"get-retry", "get-stop"}) :
              ops[c][i].tx = ops[c][i-1].tx /\ ops[c][i].err = ops[c][i-1].err
        /\ pc[c] \in {"delete", "done"} <=> OpsOf(c, {"get-stop"}) # {}
        /\ pc[c] = "get" => Last(ops[c]).op = "send"
        /\ pc[c] = "sleep" => Last(ops[c]).op = "get-retry"
        /\ pc[c] = "replace" => Last(ops[c]).op = "sleep"
        /\ pc[c] = "build" => Last(ops[c]).op \in {"getnew", "update"}
        /\ (pc[c] = "send" /\ ops[c] # <<>>) => Last(ops[c]).op = "build"

\* A batched call has returned after three broadcasts.
C17_Witness ==
    \E c \in callers :
        /\ pc[c] = "done"
        /\ Len(msgIDs[c]) >= 2
        /\ Cardinality(OpsOf(c, {"send"})) = 3
        /\ Cardinality(OpsOf(c, {"build"})) = 2

\* ------------------------------------------------------------------ C13
\* A step of the call c.
Moves(c) == pc'[c] # pc[c] \/ idx'[c] # idx[c]

\* C13: of two concurrent calls with disjoint msgIDs, no step of one changes
\* whether an id of the other is registered, and while one waits in its backoff
\* the other, wherever it stands inside its call, can take its next step.
C13_DisjointCallsIndependent ==
    [][\A c \in callers : \A d \in callers \ {c} :
          (Range(msgIDs[c]) \cap Range(msgIDs[d]) = {}) =>
              /\ Moves(c) =>
                    \A id \in Range(msgIDs[d]) : (id \in sendingTxs') <=> (id \in sendingTxs)
              /\ (pc[c] = "sleep" /\ pc[d] \in {"store", "send", "get", "delete"}) =>
                    ENABLED Step(d)]_vars

\* One call is still in its backoff and the other, with other ids, has
\* broadcast and returned.
C13_Witness ==
    \E c \in callers : \E d \in callers \ {c} :
        /\ Range(msgIDs[c]) \cap Range(msgIDs[d]) = {}
        /\ pc[c] = "sleep"
        /\ pc[d] = "done"
        /\ Len(sent[c]) = 1 /\ Len(sent[d]) >= 1
        /\ Range(msgIDs[c]) \subseteq sendingTxs
        /\ Range(msgIDs[d]) \cap sendingTxs = {}

\* ------------------------------------------------------------------ C18
\* C18: the registry never blocks a call: a call about to store an id can
\* store it whether or not another call has it registered, and a call in its
\* retry loop can broadcast whatever the registry holds.
C18_RegistryNeverBlocks ==
    \A c \in callers :
        /\ pc[c] = "store" => ENABLED Store(c)
        /\ pc[c] = "send" => ENABLED (Send(c) \/ SendPanic(c))

\* Two calls sharing an id are both inside their retry loops, each having
\* broadcast.
C18_Witness ==
    \E c \in callers : \E d \in callers \ {c} :
        /\ Range(msgIDs[c]) \cap Range(msgIDs[d]) # {}
        /\ InLoop(c) /\ InLoop(d)
        /\ Len(sent[c]) >= 1 /\ Len(sent[d]) >= 1

\* ------------------------------------------------------------------ C16
\* C16: cancelling the ctx moves no call, and a call whose ctx is cancelled
\* can always finish its backoff, leaves it only into the rest of the loop body
\* (GetNew, build, next broadcast) and starts to return only out of a
\* RetryPolicy.Get that answered retry=false for the broadcast before it. The
\* one other way out of the loop body is the nil dereference of line 82, which
\* a call takes whether its ctx is cancelled or not.
C16_CancelDoesNotEndLoop ==
    [][\A c \in callers :
          /\ cancelled'[c] # cancelled[c] => (pc'[c] = pc[c] /\ ret'[c] = ret[c])
          /\ cancelled[c] =>
                /\ pc[c] = "sleep" => (ENABLED Sleep(c)) /\ pc'[c] \in {"sleep", "replace"}
                /\ pc[c] = "replace" =>
                      pc'[c] \in {"replace", IF IsTx(tx[c]) THEN "build" ELSE "panicked"}
                /\ pc[c] = "build" => pc'[c] \in {"build", "send"}
                /\ (pc'[c] = "delete" /\ pc[c] # "delete") =>
                      /\ pc[c] = "get"
                      /\ Last(ops'[c]).op = "get-stop"
                      /\ ops'[c][Len(ops'[c]) - 1].op = "send"
                      /\ ret'[c] = ops'[c][Len(ops'[c]) - 1].err]_vars

\* A call cancelled after its first broadcast has made two more broadcasts,
\* each after a backoff, and returned.
C16_Witness ==
    \E c \in callers :
        /\ cancelled[c]
        /\ pc[c] = "done"
        /\ Len(sent[c]) = 3
        /\ sent[c][1].err # ErrCanceled
        /\ sent[c][2].err = ErrCanceled /\ sent[c][3].err = ErrCanceled
        /\ Cardinality(OpsOf(c, {"sleep"})) = 2

\* ------------------------------------------------------------------ C19
\* C19: s.srv.Close() is called at most once whatever the interleaving of the
\* Stop calls and of the goroutine of Start, and a Stop call begun after Start
\* has set s.srv never panics and is never stuck: it can close the server when
\* it is the one to do so, and it waits on the Once only while another call
\* is inside it.
C19_ClosedOnceStopsComplete ==
    /\ closes <= 1
    /\ \A k \in Stoppers :
          afterStart[k] =>
             /\ stopPc[k] # "panicked"
             /\ stopPc[k] = "close" => ENABLED Close(k)
             /\ stopPc[k] = "do" =>
                   \/ ENABLED OnceDo(k)
                   \/ \E j \in Stoppers \ {k} : stopPc[j] = "close"

\* An explicit Stop and the goroutine of Start both ran Stop after Start and
\* returned, and the server was closed.
C19_Witness ==
    /\ \E k \in ExplicitStops : afterStart[k] /\ stopPc[k] = "returned"
    /\ afterStart["ctx"] /\ stopPc["ctx"] = "returned"
    /\ closes = 1
    /\ startPc = "returned"

\* ------------------------------------------------------------------ C20
\* C20: the handler served at a path is the middlewares that were registered
\* before it, first registered outermost, around the handler itself; the
\* middlewares registered after it are not part of it.
C20_ChainInRegistrationOrder ==
    \A p \in Paths :
        mux[p] # <<>> =>
            /\ regLen[p] <= Len(middlewares)
            /\ mux[p] = SubSeq(middlewares, 1, regLen[p]) \o Handler(p)

\* A handler registered behind two different middlewares, and a middleware
\* registered after it.
C20_Witness ==
    \E p \in Paths :
        /\ mux[p] # <<>>
        /\ regLen[p] = 2
        /\ middlewares[1] # middlewares[2]
        /\ Len(middlewares) > regLen[p]

====
